---------------------------- MODULE Spec2Model ----------------------------
(***************************************************************************)
(* A model of the Solana CLI of practice-2/solana-cli/src/main.rs (which   *)
(* contains practice-1's four operations unchanged and adds five more).    *)
(*                                                                         *)
(* One run of the tool is one behaviour: main dispatches on the flags, the *)
(* chosen operation runs statement by statement, and the process ends      *)
(* either by returning from main (exit = "ok") or by a panic.              *)
(* The ledger client, the clock, the random key generator and the          *)
(* environment are the inputs; each is drawn from a small set.             *)
(*                                                                         *)
(* Text is a sequence of one-character strings; bytes are 0..255.          *)
(***************************************************************************)
EXTENDS Integers, Sequences, FiniteSets, TLC

VARIABLES
    flags,          \* the set of flags given on the command line
    account_exists, \* the ledger: whether the associated token account is there
    pc,             \* the statement the process is at
    ran,            \* the operations main has dispatched to, in order
    exit,           \* "running", "ok" (main returned) or "panic"
    panic_msg,      \* the message of the panic, "" when there is none
    out,            \* the lines printed so far, as records
    calls,          \* the ledger-client calls made so far: [site, call, ok]
    env,            \* the environment as load_keypair_from_env found it, or NotRead
    sender,         \* the keypair loaded from the environment, or NoKey
    prefix,         \* find_keypair: its prefix argument
    max_minutes,    \* find_keypair: its max_minutes argument
    max_duration,   \* find_keypair: Duration::from_secs(max_minutes * 60)
    clock,          \* time since start_time, in ticks; start_time.elapsed() reads it
    keypair,        \* the last keypair Keypair::new() returned, or NoKey
    late_gens,      \* find_keypair: keys generated past the deadline
    current_balance,\* airdrop_if_required: what get_balance returned
    polls,          \* airdrop_if_required: confirmation queries made
    last_confirm    \* airdrop_if_required: the last confirmation answer

vars == << flags, account_exists, pc, ran, exit, panic_msg, out, calls, env, sender,
           prefix, max_minutes, max_duration, clock, keypair,
           late_gens, current_balance, polls, last_confirm >>

----------------------------------------------------------------------------
(* Bounds of the model.                                                    *)

\* The tool is run with at most MaxFlags flags set.
MaxFlags == 2
\* find_keypair is tried with budgets 0..MaxMinutes.
MaxMinutes == 2
\* The long pause between two statements, in seconds.
MaxTick == 35
\* The resolution of the clock: a second is 2 * TickPairs + 1 ticks.
TickPairs == 1
\* The confirmation queries that are counted (the loop itself has no cap).
MaxPolls == 3

(* Program constants.                                                      *)
SecsPerMin == 60
Hundred == 100
\* The ticks in a second. Their number is odd, so that no duration is halfway
\* between two hundredths of a minute, where the figure printed would depend
\* on how the floating-point division happened to round.
TicksPerSec == 2 * TickPairs + 1
Base == 58
ByteRadix == 256
KeypairLen == 64
SecretLen == 32
LAMPORTS_PER_SOL == 1000000000

NoKey == [secret |-> <<>>, pubkey |-> <<>>]
NotRead == [dotenv |-> FALSE, secret_key |-> [kind |-> "not_read"]]
None == "none"

----------------------------------------------------------------------------
(* bs58::encode(bytes).into_string(), as the bs58 crate computes it: the   *)
(* digits are kept least significant first, every input byte is pushed     *)
(* through them with a carry, one zero digit is added per leading zero     *)
(* byte, and the digits are mapped through the alphabet and reversed.      *)

Alphabet ==
    << "1","2","3","4","5","6","7","8","9",
       "A","B","C","D","E","F","G","H","J","K","L","M","N","P","Q","R","S",
       "T","U","V","W","X","Y","Z",
       "a","b","c","d","e","f","g","h","i","j","k","m","n","o","p","q","r",
       "s","t","u","v","w","x","y","z" >>

RECURSIVE PushByte(_, _, _)
PushByte(digits, carry, acc) ==
    IF digits = <<>>
    THEN IF carry = 0 THEN acc
         ELSE PushByte(<<>>, carry \div Base, Append(acc, carry % Base))
    ELSE LET c == carry + Head(digits) * ByteRadix
         IN  PushByte(Tail(digits), c \div Base, Append(acc, c % Base))

RECURSIVE EncodeDigits(_, _)
EncodeDigits(input, digits) ==
    IF input = <<>> THEN digits
    ELSE EncodeDigits(Tail(input), PushByte(digits, Head(input), <<>>))

RECURSIVE LeadingZeros(_)
LeadingZeros(input) ==
    IF input = <<>> \/ Head(input) # 0 THEN 0
    ELSE 1 + LeadingZeros(Tail(input))

bs58_encode(input) ==
    LET d == EncodeDigits(input, <<>>) \o [i \in 1..LeadingZeros(input) |-> 0]
    IN  [i \in 1..Len(d) |-> Alphabet[d[Len(d) + 1 - i] + 1]]

\* A stand-in for a test that finds the prefix anywhere in the text.
contains(s, p) == \E k \in 0..Len(s) : Len(p) + k <= Len(s) /\ SubSeq(s, k + 1, k + Len(p)) = p
\* str::starts_with
starts_with(s, p) == Len(p) <= Len(s) /\ SubSeq(s, 1, Len(p)) = p

\* Keypair::to_bytes: the secret half followed by the public half.
to_bytes(kp) == kp.secret \o kp.pubkey

----------------------------------------------------------------------------
(* Inputs.                                                                 *)

\* What Keypair::new() can return: keypairs with short public halves whose
\* encodings are "Lev", "L11", "111" and "1z".
GeneratedKeypairs ==
    { [secret |-> <<11>>, pubkey |-> <<1, 2, 67>>],
      [secret |-> <<12>>, pubkey |-> <<249, 172>>],
      [secret |-> <<14>>, pubkey |-> <<0, 0, 0>>],
      [secret |-> <<16>>, pubkey |-> <<0, 57>>] }

Lev == << "L", "e", "v" >>

\* The prefixes find_keypair is tried with.
Prefixes ==
    { <<>>, << "L" >>, Lev, << "1", "1" >>, << "z" >> }

\* A long pause, and a short one: three short pauses and a long one make a
\* minute, and a short pause is not a whole number of seconds.
LongTick == MaxTick * TicksPerSec
ShortTick == ((SecsPerMin - MaxTick) * TicksPerSec) \div 3
\* The time that passes before a reading of the clock, in ticks: less than
\* the clock resolves, a short pause, or a long pause.
Ticks == { 0, ShortTick, LongTick }
\* The time that generating and encoding one key takes: any of the above,
\* so that any number of keys can be generated within one tick.
WorkTicks == Ticks

----------------------------------------------------------------------------
(* find_keypair                                                            *)

\* A stand-in for an expiry test that allows a minute more.
Expired_late(e, d) == e > d + SecsPerMin * TicksPerSec
\* start_time.elapsed() > max_duration
Expired(e, d) == e > d

\* Duration::from_secs: a number of seconds as a duration in ticks.
from_secs(n) == n * TicksPerSec
\* Duration::as_secs: the whole seconds of a duration, the fraction dropped.
as_secs(e) == e \div TicksPerSec
\* as_secs_f64() / 60.0 under "{:.2}": the minutes of a duration, fraction of
\* a second included, rounded to the nearest hundredth.
centiminutes(e) ==
    (e * Hundred + (SecsPerMin * TicksPerSec) \div 2) \div (SecsPerMin * TicksPerSec)

TimeoutLine(p, m) == [kind |-> "timeout", prefix |-> p, minutes |-> m]
\* A stand-in for a report of the budget in place of the elapsed time.
FoundLine_budget(e) ==
    [kind |-> "found", secs |-> as_secs(max_duration),
     centiminutes |-> centiminutes(max_duration)]
\* "{} second(s) or {:.2} minute(s)" of elapsed_time: the seconds are whole,
\* the minutes are those of the duration as read, to two decimals.
FoundLine(e) ==
    [kind |-> "found", secs |-> as_secs(e), centiminutes |-> centiminutes(e)]
PublicKeyLine(s) == [kind |-> "public_key", text |-> s]
SecretKeyLine(b) == [kind |-> "secret_key", bytes |-> b]
FinishedLine == [kind |-> "finished"]

\* let start_time = Instant::now(); let max_duration = ...
FindKeypairStart ==
    /\ pc = "find_keypair"
    /\ clock' = 0
    /\ max_duration' = from_secs(max_minutes * SecsPerMin)
    /\ pc' = "fk_check"
    /\ UNCHANGED << flags, account_exists, ran, exit, panic_msg, out, calls, env, sender,
                    prefix, max_minutes, keypair, late_gens, current_balance,
                    polls, last_confirm >>

\* The head of the loop: read the clock; past the budget, report and leave.
FindKeypairCheck ==
    /\ pc = "fk_check"
    /\ \E d \in Ticks :
         LET e == clock + d IN
         /\ clock' = e
         /\ IF Expired(e, max_duration)
            THEN /\ out' = Append(out, TimeoutLine(prefix, max_minutes))
                 /\ pc' = "return"
            ELSE /\ out' = out
                 /\ pc' = "fk_generate"
    /\ UNCHANGED << flags, account_exists, ran, exit, panic_msg, calls, env, sender,
                    prefix, max_minutes, max_duration, keypair, late_gens,
                    current_balance, polls, last_confirm >>

\* The rest of the loop body: generate, encode, compare, report a match.
\* The time that generating and encoding a key takes passes on the clock;
\* the code reads it only after a match, into elapsed_time.
FindKeypairGenerate ==
    /\ pc = "fk_generate"
    /\ \E kp \in GeneratedKeypairs, d \in WorkTicks :
         LET public_key_base58 == bs58_encode(kp.pubkey)
             e == clock + d
         IN
         /\ clock' = e
         /\ late_gens' = IF e > max_duration THEN late_gens + 1 ELSE late_gens
         /\ IF starts_with(public_key_base58, prefix)
            THEN /\ keypair' = kp
                 /\ out' = out \o << FoundLine(e),
                                     PublicKeyLine(public_key_base58),
                                     SecretKeyLine(to_bytes(kp)),
                                     FinishedLine >>
                 /\ pc' = "return"
            ELSE /\ keypair' = kp
                 /\ out' = out
                 /\ pc' = "fk_check"
    /\ UNCHANGED << flags, account_exists, ran, exit, panic_msg, calls, env, sender,
                    prefix, max_minutes, max_duration, current_balance, polls,
                    last_confirm >>

\* Returning to main, which returns: the process exits normally.
Return ==
    /\ pc = "return"
    /\ pc' = "exit"
    /\ exit' = "ok"
    /\ UNCHANGED << flags, account_exists, ran, panic_msg, out, calls, env, sender,
                    prefix, max_minutes, max_duration, clock, keypair,
                    late_gens, current_balance, polls, last_confirm >>

----------------------------------------------------------------------------
(* main: the dispatch on the flags.                                        *)

Flags ==
    { "generate-keypair", "load-keypair", "check-balance", "find-keypair",
      "send-sol", "create-token-mint", "create-token-account", "mint-tokens",
      "create-token-metadata" }

\* A stand-in for a dispatch that tests the flags in another order.
Dispatch_reordered(fl) ==
    IF "create-token-metadata" \in fl THEN "create-token-metadata"
    ELSE IF "mint-tokens" \in fl THEN "mint-tokens"
    ELSE IF "create-token-account" \in fl THEN "create-token-account"
    ELSE IF "create-token-mint" \in fl THEN "create-token-mint"
    ELSE IF "send-sol" \in fl THEN "send-sol"
    ELSE IF "find-keypair" \in fl THEN "find-keypair"
    ELSE IF "check-balance" \in fl THEN "check-balance"
    ELSE IF "load-keypair" \in fl THEN "load-keypair"
    ELSE IF "generate-keypair" \in fl THEN "generate-keypair"
    ELSE None

\* The if / else if chain of main: the operation that runs, or None.
Dispatch(fl) ==
    IF "generate-keypair" \in fl THEN "generate-keypair"
    ELSE IF "load-keypair" \in fl THEN "load-keypair"
    ELSE IF "check-balance" \in fl THEN "check-balance"
    ELSE IF "find-keypair" \in fl THEN "find-keypair"
    ELSE IF "send-sol" \in fl THEN "send-sol"
    ELSE IF "create-token-mint" \in fl THEN "create-token-mint"
    ELSE IF "create-token-account" \in fl THEN "create-token-account"
    ELSE IF "mint-tokens" \in fl THEN "mint-tokens"
    ELSE IF "create-token-metadata" \in fl THEN "create-token-metadata"
    ELSE None

\* The first statement of each operation.
Entry(o) ==
    CASE o = "generate-keypair" -> "generate_keypair"
      [] o = "load-keypair" -> "load_keypair"
      [] o = "check-balance" -> "check_balance"
      [] o = "find-keypair" -> "find_keypair"
      [] o = "send-sol" -> "send_sol"
      [] o = "create-token-mint" -> "create_token_mint"
      [] o = "create-token-account" -> "create_token_account"
      [] o = "mint-tokens" -> "mint_tokens"
      [] o = "create-token-metadata" -> "create_token_metadata"

\* find_keypair("Lev", 3)
MainMaxMinutes == 3

Main ==
    /\ pc = "main"
    /\ LET o == Dispatch(flags) IN
       IF o = None
       THEN /\ pc' = "return"
            /\ UNCHANGED << ran, prefix, max_minutes >>
       ELSE /\ pc' = Entry(o)
            /\ ran' = Append(ran, o)
            /\ IF o = "find-keypair"
               THEN prefix' = Lev /\ max_minutes' = MainMaxMinutes
               ELSE UNCHANGED << prefix, max_minutes >>
    /\ UNCHANGED << flags, account_exists, exit, panic_msg, out, calls, env, sender,
                    max_duration, clock, keypair, late_gens,
                    current_balance, polls, last_confirm >>

\* A panic: the process aborts with a message, whatever it was doing.
Panic(msg) ==
    /\ pc' = "exit"
    /\ exit' = "panic"
    /\ panic_msg' = msg

\* "<operation> failed due to: {:?}", printed by main on an Err.
FailedLine(o) == [kind |-> "failed", op |-> o]

----------------------------------------------------------------------------
(* generate_keypair                                                        *)

GenerateKeypair ==
    /\ pc = "generate_keypair"
    /\ \E kp \in GeneratedKeypairs :
         /\ keypair' = kp
         /\ out' = out \o << PublicKeyLine(bs58_encode(kp.pubkey)),
                             SecretKeyLine(to_bytes(kp)),
                             FinishedLine >>
    /\ pc' = "return"
    /\ UNCHANGED << flags, account_exists, ran, exit, panic_msg, calls, env, sender, prefix,
                    max_minutes, max_duration, clock, late_gens,
                    current_balance, polls, last_confirm >>

----------------------------------------------------------------------------
(* load_keypair_from_env                                                   *)

\* The environment: whether the .env file is there, and SECRET_KEY: Unset,
\* or its text, either a JSON array of integers ("array", with its items)
\* or anything else ("text").
Unset == [kind |-> "unset"]
Text == [kind |-> "text"]
Array(items) == [kind |-> "array", items |-> items]

GoodSecret == [i \in 1..KeypairLen |-> IF i <= SecretLen THEN i ELSE 0]
OtherSecret == [i \in 1..KeypairLen |-> IF i <= SecretLen THEN 7 ELSE 300 - i]

EnvInputs ==
    { [dotenv |-> FALSE, secret_key |-> Array(GoodSecret)],
      [dotenv |-> TRUE, secret_key |-> Unset],
      [dotenv |-> TRUE, secret_key |-> Text],
      [dotenv |-> TRUE, secret_key |-> Array(<< 1, 2, 256 >>)],
      [dotenv |-> TRUE, secret_key |-> Array(<< 1, 2, 3 >>)],
      [dotenv |-> TRUE, secret_key |-> Array(SubSeq(GoodSecret, 1, KeypairLen - 1))],
      [dotenv |-> TRUE, secret_key |-> Array(GoodSecret)],
      [dotenv |-> TRUE, secret_key |-> Array(OtherSecret)] }

Ok(v) == [ok |-> TRUE, value |-> v]
Err(m) == [ok |-> FALSE, msg |-> m]

\* serde_json::from_str::<Vec<u8>>
from_str(text) ==
    IF text.kind = "array" /\ \A i \in DOMAIN text.items : text.items[i] \in 0..(ByteRadix - 1)
    THEN Ok(text.items)
    ELSE Err("Failed to parse SECRET_KEY from .env")

\* A stand-in for a from_bytes that takes any number of bytes.
Keypair_from_bytes_any(bytes) ==
    IF Len(bytes) >= SecretLen
    THEN Ok([secret |-> SubSeq(bytes, 1, SecretLen),
             pubkey |-> SubSeq(bytes, SecretLen + 1, Len(bytes))])
    ELSE Ok([secret |-> bytes, pubkey |-> <<>>])
\* Keypair::from_bytes: sixty-four bytes, the secret half then the public one.
Keypair_from_bytes(bytes) ==
    IF Len(bytes) = KeypairLen
    THEN Ok([secret |-> SubSeq(bytes, 1, SecretLen),
             pubkey |-> SubSeq(bytes, SecretLen + 1, KeypairLen)])
    ELSE Err("Failed to create Keypair from secret key")

\* The four steps of load_keypair_from_env, each an expect().
load_keypair_from_env(e) ==
    IF ~e.dotenv THEN Err(".env file not found")
    ELSE IF e.secret_key = Unset THEN Err("Add SECRET_KEY to .env!")
    ELSE LET as_array == from_str(e.secret_key) IN
         IF ~as_array.ok THEN as_array
         ELSE Keypair_from_bytes(as_array.value)

\* The operations that start by loading the secret, and where each goes on.
AfterLoad(here) ==
    CASE here = "load_keypair" -> "lk_print"
      [] here = "send_sol" -> "ss_blockhash"
      [] here = "create_token_mint" -> "cm_rent"
      [] here = "create_token_account" -> "ata_get_account"
      [] here = "mint_tokens" -> "mt_blockhash"
      [] here = "create_token_metadata" -> "md_blockhash"

LoadSites ==
    { "load_keypair", "send_sol", "create_token_mint", "create_token_account",
      "mint_tokens", "create_token_metadata" }

OurPublicKeyLine(k) == [kind |-> "our_public_key", text |-> k]
SendingLine == [kind |-> "sending"]
MemoLine == [kind |-> "memo"]

\* let sender = load_keypair_from_env(); and the lines printed before the
\* first ledger call of the operation (create_connection opens nothing).
LoadKeypairFromEnv ==
    /\ pc \in LoadSites
    /\ \E e \in EnvInputs :
         LET r == load_keypair_from_env(e) IN
         /\ env' = e
         /\ IF r.ok
            THEN /\ sender' = r.value
                 /\ pc' = AfterLoad(pc)
                 /\ out' = IF pc = "send_sol"
                           THEN out \o << OurPublicKeyLine(r.value.pubkey),
                                          SendingLine, MemoLine >>
                           ELSE IF pc \in { "create_token_mint",
                                            "create_token_account" }
                           THEN Append(out, OurPublicKeyLine(r.value.pubkey))
                           ELSE out
                 /\ UNCHANGED << exit, panic_msg >>
            ELSE /\ Panic(r.msg)
                 /\ UNCHANGED << sender, out >>
    /\ UNCHANGED << flags, account_exists, ran, calls, prefix, max_minutes, max_duration,
                    clock, keypair, late_gens, current_balance, polls,
                    last_confirm >>

\* load_keypair: println!("Public key: {}", ...)
LoadKeypairPrint ==
    /\ pc = "lk_print"
    /\ out' = Append(out, PublicKeyLine(bs58_encode(sender.pubkey)))
    /\ pc' = "return"
    /\ UNCHANGED << flags, account_exists, ran, exit, panic_msg, calls, env, sender, prefix,
                    max_minutes, max_duration, clock, keypair,
                    late_gens, current_balance, polls, last_confirm >>

----------------------------------------------------------------------------
(* The ledger client.  Every call either succeeds or returns an error.     *)

Call(site, name, ok) == [site |-> site, call |-> name, ok |-> ok]

\* A stand-in for a call whose error is dropped and the operation goes on.
Try_ignored(here, name, next, done) ==
    /\ pc = here
    /\ \E ok \in BOOLEAN :
         /\ calls' = Append(calls, Call(here, name, ok))
         /\ pc' = next
         /\ out' = out \o done
\* connection.<name>(..)?  in an operation main calls with if let Err(e):
\* on an error the operation returns it, main prints it and returns.
Try(here, name, next, done) ==
    /\ pc = here
    /\ \E ok \in BOOLEAN :
         /\ calls' = Append(calls, Call(here, name, ok))
         /\ IF ok
            THEN pc' = next /\ out' = out \o done
            ELSE pc' = "return" /\ out' = Append(out, FailedLine(ran[1]))

----------------------------------------------------------------------------
(* check_balance and airdrop_if_required                                   *)

\* airdrop_if_required(&connection, &public_key, 0.5, 1.5), in tenths of SOL
AirdropTenths == 5
MinBalanceTenths == 15
Tenth == 10

\* (sol * LAMPORTS_PER_SOL as f64) as u64
Lamports(tenths) == tenths * (LAMPORTS_PER_SOL \div Tenth)

\* The balances the ledger is tried with: around the minimum, and far off.
Balances ==
    { 0, Lamports(MinBalanceTenths) - 1, Lamports(MinBalanceTenths),
      Lamports(MinBalanceTenths) + 1, 2 * LAMPORTS_PER_SOL }

\* A stand-in for a comparison that includes the minimum.
BelowMinimum_inclusive(balance, min_tenths) == balance <= Lamports(min_tenths)
\* current_balance < (min_balance * LAMPORTS_PER_SOL as f64) as u64
BelowMinimum(balance, min_tenths) == balance < Lamports(min_tenths)

\* A stand-in for a loop that leaves after any answer.
Confirmed_any(value) == value \in { "true", "false" }
\* if confirmed.value { break; }
Confirmed(value) == value = "true"

ConnectedLine == [kind |-> "connected"]
RequestingLine == [kind |-> "requesting_airdrop"]
AirdropCompleteLine == [kind |-> "airdrop_complete"]
NoAirdropLine == [kind |-> "no_airdrop_required"]
AirdropFailedLine == [kind |-> "airdrop_failed"]
BalanceLine(b) == [kind |-> "balance", lamports |-> b]

CheckBalanceStart ==
    /\ pc = "check_balance"
    /\ out' = Append(out, ConnectedLine)
    /\ pc' = "air_get_balance"
    /\ UNCHANGED << flags, account_exists, ran, exit, panic_msg, calls, env, sender, prefix,
                    max_minutes, max_duration, clock, keypair,
                    late_gens, current_balance, polls, last_confirm >>

\* let current_balance = connection.get_balance(public_key)?; and the test.
\* An Err returns to check_balance, which prints it and goes on.
AirdropGetBalance ==
    /\ pc = "air_get_balance"
    /\ \/ /\ calls' = Append(calls, Call(pc, "get_balance", FALSE))
          /\ out' = Append(out, AirdropFailedLine)
          /\ pc' = "cb_get_balance"
          /\ UNCHANGED current_balance
       \/ \E b \in Balances :
            /\ calls' = Append(calls, Call(pc, "get_balance", TRUE))
            /\ current_balance' = b
            /\ IF BelowMinimum(b, MinBalanceTenths)
               THEN out' = Append(out, RequestingLine) /\ pc' = "air_request"
               ELSE out' = Append(out, NoAirdropLine) /\ pc' = "cb_get_balance"
    /\ UNCHANGED << flags, account_exists, ran, exit, panic_msg, env, sender, prefix,
                    max_minutes, max_duration, clock, keypair,
                    late_gens, polls, last_confirm >>

\* let signature = connection.request_airdrop(..)?;
AirdropRequest ==
    /\ pc = "air_request"
    /\ \E ok \in BOOLEAN :
         /\ calls' = Append(calls, Call(pc, "request_airdrop", ok))
         /\ IF ok
            THEN pc' = "air_confirm" /\ out' = out
            ELSE pc' = "cb_get_balance" /\ out' = Append(out, AirdropFailedLine)
    /\ UNCHANGED << flags, account_exists, ran, exit, panic_msg, env, sender, prefix,
                    max_minutes, max_duration, clock, keypair,
                    late_gens, current_balance, polls, last_confirm >>

\* One turn of the confirmation loop.  The answer is an error, true or
\* false (confirmed.value).  Answers of false past MaxPolls are no longer counted or logged.
AirdropConfirm ==
    /\ pc = "air_confirm"
    /\ \E answer \in { "err", "true", "false" } :
         /\ last_confirm' = answer
         /\ polls' = IF polls < MaxPolls THEN polls + 1 ELSE polls
         /\ calls' = IF polls < MaxPolls \/ answer # "false"
                     THEN Append(calls, Call(pc, "confirm_transaction", answer # "err"))
                     ELSE calls
         /\ IF answer = "err"
            THEN pc' = "cb_get_balance" /\ out' = Append(out, AirdropFailedLine)
            ELSE IF Confirmed(answer)
            THEN pc' = "cb_get_balance" /\ out' = Append(out, AirdropCompleteLine)
            ELSE pc' = "air_confirm" /\ out' = out
    /\ UNCHANGED << flags, account_exists, ran, exit, panic_msg, env, sender, prefix,
                    max_minutes, max_duration, clock, keypair,
                    late_gens, current_balance >>

\* let balance_in_lamports = connection.get_balance(&public_key).unwrap();
CheckBalanceGetBalance ==
    /\ pc = "cb_get_balance"
    /\ \/ /\ calls' = Append(calls, Call(pc, "get_balance", FALSE))
          /\ Panic("called Result::unwrap() on an Err value")
          /\ out' = out
       \/ \E b \in Balances :
            /\ calls' = Append(calls, Call(pc, "get_balance", TRUE))
            /\ out' = Append(out, BalanceLine(b))
            /\ pc' = "return"
            /\ UNCHANGED << exit, panic_msg >>
    /\ UNCHANGED << flags, account_exists, ran, env, sender, prefix, max_minutes, max_duration,
                    clock, keypair, late_gens, current_balance, polls,
                    last_confirm >>

----------------------------------------------------------------------------
(* The operations that build one transaction and send it.                  *)

Rest == << flags, account_exists, ran, exit, panic_msg, env, sender, prefix, max_minutes,
           max_duration, clock, late_gens, current_balance, polls,
           last_confirm >>

ConfirmedLine == [kind |-> "transaction_confirmed"]
TokenMintLine(k) == [kind |-> "token_mint", address |-> k]
MintedLine == [kind |-> "minted"]
MetadataLine == [kind |-> "metadata_created"]

\* send_sol
SendSolBlockhash ==
    /\ Try("ss_blockhash", "get_latest_blockhash", "ss_send", <<>>)
    /\ UNCHANGED Rest /\ UNCHANGED keypair

SendSolSend ==
    /\ Try("ss_send", "send_and_confirm_transaction", "return", << ConfirmedLine >>)
    /\ UNCHANGED Rest /\ UNCHANGED keypair

\* create_token_mint, create_mint: a new keypair for the mint account, then
\* the rent query.
CreateMintRent ==
    /\ \E kp \in GeneratedKeypairs : keypair' = kp
    /\ Try("cm_rent", "get_minimum_balance_for_rent_exemption", "cm_blockhash", <<>>)
    /\ UNCHANGED Rest

CreateMintBlockhash ==
    /\ Try("cm_blockhash", "get_latest_blockhash", "cm_send", <<>>)
    /\ UNCHANGED Rest /\ UNCHANGED keypair

CreateMintSend ==
    /\ Try("cm_send", "send_and_confirm_transaction", "return",
           << TokenMintLine(keypair.pubkey) >>)
    /\ UNCHANGED Rest /\ UNCHANGED keypair

\* mint_tokens
MintTokensBlockhash ==
    /\ Try("mt_blockhash", "get_latest_blockhash", "mt_send", <<>>)
    /\ UNCHANGED Rest /\ UNCHANGED keypair

MintTokensSend ==
    /\ Try("mt_send", "send_and_confirm_transaction", "return", << MintedLine >>)
    /\ UNCHANGED Rest /\ UNCHANGED keypair

\* create_token_metadata
MetadataBlockhash ==
    /\ Try("md_blockhash", "get_latest_blockhash", "md_send", <<>>)
    /\ UNCHANGED Rest /\ UNCHANGED keypair

MetadataSend ==
    /\ Try("md_send", "send_and_confirm_transaction", "return", << MetadataLine >>)
    /\ UNCHANGED Rest /\ UNCHANGED keypair

----------------------------------------------------------------------------
(* create_token_account and get_or_create_associated_token_account         *)

TokenMintAccount == "ExJmrjcJj3FuHNvswLkLmAxiEBGcdW5g9WnZqb8VjCiz"
Recipient == "8cUNp6LJGfjN3M1mwk537CfY2WBtYUYQNnf4hVtPx7AB"

\* get_associated_token_address(recipient, mint): the address derived from
\* the pair, kept as the pair.
get_associated_token_address(recipient, mint) == << "ata", recipient, mint >>

TokenAccountLines(a) ==
    << [kind |-> "token_account", address |-> a],
       [kind |-> "created_token_account", address |-> a] >>

\* connection.get_account(&associated_token_address).is_err()
AccountMissing(ok) == ~ok

\* What get_account can answer: an error when the account is not there, and
\* the account or an error of the transport when it is.
GetAccountAnswers == IF account_exists THEN BOOLEAN ELSE { FALSE }
\* What submitting the create transaction can answer: the ledger refuses to
\* create an account that is there.
CreateAnswers == IF account_exists THEN { FALSE } ELSE BOOLEAN

\* if connection.get_account(&associated_token_address).is_err() { .. }
\* An account that is found ends the function with Ok(address).
AtaGetAccount ==
    /\ pc = "ata_get_account"
    /\ \E ok \in GetAccountAnswers :
         /\ calls' = Append(calls, Call(pc, "get_account", ok))
         /\ IF AccountMissing(ok)
            THEN /\ pc' = "ata_blockhash"
                 /\ out' = out
            ELSE /\ pc' = "return"
                 /\ out' = out \o TokenAccountLines(
                              get_associated_token_address(Recipient, TokenMintAccount))
    /\ UNCHANGED Rest /\ UNCHANGED keypair

AtaBlockhash ==
    /\ Try("ata_blockhash", "get_latest_blockhash", "ata_send", <<>>)
    /\ UNCHANGED Rest /\ UNCHANGED keypair

\* connection.send_and_confirm_transaction(&transaction)?; Ok(address)
\* A transaction that went through has put the account on the ledger.
AtaSend ==
    /\ pc = "ata_send"
    /\ \E ok \in CreateAnswers :
         /\ calls' = Append(calls, Call(pc, "send_and_confirm_transaction", ok))
         /\ account_exists' = (account_exists \/ ok)
         /\ pc' = "return"
         /\ out' = IF ok
                   THEN out \o TokenAccountLines(
                          get_associated_token_address(Recipient, TokenMintAccount))
                   ELSE Append(out, FailedLine(ran[1]))
    /\ UNCHANGED << flags, ran, exit, panic_msg, env, sender, prefix,
                    max_minutes, max_duration, clock, keypair, late_gens,
                    current_balance, polls, last_confirm >>

----------------------------------------------------------------------------
(* The tool: one run from the command line.                                *)

Init ==
    /\ flags \in { fl \in SUBSET Flags : Cardinality(fl) <= MaxFlags }
    /\ pc = "main"
    /\ ran = <<>>
    /\ exit = "running"
    /\ panic_msg = ""
    /\ out = <<>>
    /\ calls = <<>>
    /\ env = NotRead
    /\ sender = NoKey
    /\ prefix = <<>>
    /\ max_minutes = 0
    /\ max_duration = 0
    /\ clock = 0
    /\ keypair = NoKey
    /\ late_gens = 0
    /\ current_balance = 0
    /\ polls = 0
    /\ last_confirm = None
    /\ account_exists \in BOOLEAN

Next ==
    \/ Main
    \/ GenerateKeypair
    \/ LoadKeypairFromEnv
    \/ LoadKeypairPrint
    \/ CheckBalanceStart
    \/ AirdropGetBalance
    \/ AirdropRequest
    \/ AirdropConfirm
    \/ CheckBalanceGetBalance
    \/ FindKeypairStart
    \/ FindKeypairCheck
    \/ FindKeypairGenerate
    \/ SendSolBlockhash
    \/ SendSolSend
    \/ CreateMintRent
    \/ CreateMintBlockhash
    \/ CreateMintSend
    \/ AtaGetAccount
    \/ AtaBlockhash
    \/ AtaSend
    \/ MintTokensBlockhash
    \/ MintTokensSend
    \/ MetadataBlockhash
    \/ MetadataSend
    \/ Return

Spec == Init /\ [][Next]_vars

----------------------------------------------------------------------------
(* find_keypair on its own, for any prefix and budget.                     *)

InitFind ==
    /\ flags = {"find-keypair"}
    /\ pc = "find_keypair"
    /\ ran = << "find-keypair" >>
    /\ exit = "running"
    /\ panic_msg = ""
    /\ out = <<>>
    /\ calls = <<>>
    /\ env = NotRead
    /\ sender = NoKey
    /\ prefix \in Prefixes
    /\ max_minutes \in 0..MaxMinutes
    /\ max_duration = 0
    /\ clock = 0
    /\ keypair = NoKey
    /\ late_gens = 0
    /\ current_balance = 0
    /\ polls = 0
    /\ last_confirm = None
    /\ account_exists = FALSE

NextFind ==
    \/ FindKeypairStart
    \/ FindKeypairCheck
    \/ FindKeypairGenerate
    \/ Return

SpecFind == InitFind /\ [][NextFind]_vars

\* A step of the search during which the clock moves on.
ClockAdvances == NextFind /\ clock' > clock

\* The process is scheduled: a statement that can run does run; and time
\* passes: the search does not loop forever within one reading of the clock.
FairSpecFind == SpecFind /\ WF_vars(NextFind) /\ WF_vars(ClockAdvances)

----------------------------------------------------------------------------
(* Properties.                                                             *)

Lines(kind) == { i \in 1..Len(out) : out[i].kind = kind }
CallsNamed(name) == { i \in 1..Len(calls) : calls[i].call = name }
FailedCalls == { i \in 1..Len(calls) : ~calls[i].ok }
Finished == pc \in { "return", "exit" }

\* C1: find_keypair terminates, whatever the prefix and the budget and
\* whether or not a key ever matches; the check at the head of the loop that
\* reads an elapsed time above the budget leaves the loop, so that at most
\* one key is generated and encoded past the deadline.
C1_FindKeypairTerminates ==
    /\ <>(pc = "exit")
    /\ [][pc = "fk_check" /\ clock' > max_minutes * SecsPerMin * TicksPerSec
            => pc' = "return" /\ keypair' = keypair]_vars
    /\ [](late_gens <= 1)

\* A search that ran out of time after a last key was generated past the
\* deadline of a positive budget.
C1_Witness ==
    /\ pc = "exit"
    /\ max_minutes > 0
    /\ late_gens = 1
    /\ Lines("timeout") # {}

\* Whether text s begins with text p, character by character.
Begins(s, p) == \A i \in 1..Len(p) : i <= Len(s) /\ s[i] = p[i]

\* C2: every turn of the loop that generates a key reports success exactly
\* when the base-58 text of its public half begins with the prefix, and then
\* reports that very keypair; after a report nothing more is generated or
\* printed, and no run reports both a match and a timeout.
C2_MatchReportedExactly ==
    /\ [][pc = "fk_generate" =>
            LET enc == bs58_encode(keypair'.pubkey) IN
            /\ keypair' \in GeneratedKeypairs
            /\ IF Begins(enc, prefix)
               THEN /\ pc' = "return"
                    /\ Len(out') = Len(out) + 4
                    /\ out'[Len(out) + 1].kind = "found"
                    /\ out'[Len(out) + 2] = [kind |-> "public_key", text |-> enc]
                    /\ out'[Len(out) + 3] =
                         [kind |-> "secret_key",
                          bytes |-> keypair'.secret \o keypair'.pubkey]
               ELSE pc' = "fk_check" /\ out' = out]_vars
    /\ [][Finished => keypair' = keypair /\ out' = out]_vars
    /\ [](Lines("found") = {} \/ Lines("timeout") = {})

\* A finished search for "Lev" that reported the key whose text is "Lev".
C2_Witness ==
    /\ pc = "exit"
    /\ prefix = << "L", "e", "v" >>
    /\ keypair.pubkey = << 1, 2, 67 >>
    /\ Lines("found") # {}

\* C3: with a budget of zero minutes every finished search has reported the
\* timeout and no match.
C3_ZeroBudgetTimesOut ==
    (max_minutes = 0 /\ Finished) =>
        /\ Lines("found") = {}
        /\ out = << [kind |-> "timeout", prefix |-> prefix, minutes |-> 0] >>

\* Whether the environment holds a secret a keypair can be made of.
WellFormedEnv(e) ==
    /\ e.dotenv
    /\ e.secret_key.kind = "array"
    /\ Len(e.secret_key.items) = 64
    /\ \A i \in 1..Len(e.secret_key.items) : e.secret_key.items[i] \in 0..255

ConfigMessages ==
    { ".env file not found", "Add SECRET_KEY to .env!",
      "Failed to parse SECRET_KEY from .env",
      "Failed to create Keypair from secret key" }

LoadingOps ==
    { "load-keypair", "send-sol", "create-token-mint", "create-token-account",
      "mint-tokens", "create-token-metadata" }

\* C4: an operation that loads the secret and finds it missing or malformed
\* aborts with a configuration message, without having called the ledger
\* client and without the failure line of the ledger path; and such an
\* operation calls the ledger client only after a well-formed secret.
C4_BadSecretAbortsBeforeLedger ==
    /\ (env # NotRead /\ ~WellFormedEnv(env)) =>
          /\ pc = "exit"
          /\ exit = "panic"
          /\ panic_msg \in ConfigMessages
          /\ calls = <<>>
          /\ sender = NoKey
          /\ Lines("failed") = {}
    /\ (ran # <<>> /\ ran[1] \in LoadingOps /\ pc # Entry(ran[1])) =>
          env # NotRead
    /\ (ran # <<>> /\ ran[1] \in LoadingOps /\ calls # <<>>) =>
          WellFormedEnv(env)
    /\ Lines("failed") # {} => exit # "panic"

\* mint-tokens aborted on a SECRET_KEY that is no array of bytes.
C4_Witness ==
    /\ ran = << "mint-tokens" >>
    /\ exit = "panic"
    /\ panic_msg = "Failed to parse SECRET_KEY from .env"
    /\ env.secret_key.kind = "text"

\* C5: whenever a ledger-client call has returned an error, the process does
\* not panic, and when it has ended a failure line has been printed.
C5_LedgerErrorsSurfaced ==
    FailedCalls # {} =>
        /\ exit # "panic"
        /\ pc = "exit" => Lines("failed") \cup Lines("airdrop_failed") # {}

\* C6 as first stated: no ledger-client call follows a failed one.
C6_NothingAfterFailure ==
    \A i \in FailedCalls : i = Len(calls)

AirdropSites == { "air_get_balance", "air_request", "air_confirm" }

\* C6: a failed ledger-client call is the last call of the run, but for
\* two places: a failed call of airdrop_if_required is followed by the one
\* balance query of check_balance, and a failed account query of
\* get_or_create_associated_token_account is followed by the blockhash
\* query and the submission of the create transaction; a failure of one
\* of those following calls is the last call.
C6_FailureAbortsButTwo ==
    \A i \in FailedCalls :
        \/ i = Len(calls)
        \/ /\ calls[i].site \in AirdropSites
           /\ Len(calls) = i + 1
           /\ calls[i + 1].site = "cb_get_balance"
        \/ /\ calls[i].site = "ata_get_account"
           /\ i = 1
           /\ Len(calls) <= 3
           /\ calls[2].call = "get_latest_blockhash"
           /\ Len(calls) = 3 => calls[3].call = "send_and_confirm_transaction"

\* A balance check whose airdrop request failed and whose final balance
\* query was made all the same.
C6_Witness ==
    /\ pc = "exit"
    /\ Len(calls) = 3
    /\ calls[2].call = "request_airdrop" /\ ~calls[2].ok
    /\ calls[3].site = "cb_get_balance" /\ calls[3].ok

DispatchOrder ==
    << "generate-keypair", "load-keypair", "check-balance", "find-keypair",
       "send-sol", "create-token-mint", "create-token-account", "mint-tokens",
       "create-token-metadata" >>

FirstSet(fl) ==
    DispatchOrder[CHOOSE i \in 1..Len(DispatchOrder) :
                     /\ DispatchOrder[i] \in fl
                     /\ \A j \in 1..(i - 1) : DispatchOrder[j] \notin fl]

\* C7: a run executes at most one operation.  With no flag set nothing is
\* generated, read, called or printed and the process ends normally; with
\* flags set the operation that runs is the first set one in the dispatch
\* order, and keys, the secret and the ledger are touched only by the
\* operations that use them.
C7_AtMostOneOperation ==
    /\ Len(ran) <= 1
    /\ flags = {} =>
          /\ ran = <<>> /\ keypair = NoKey /\ env = NotRead
          /\ calls = <<>> /\ out = <<>>
          /\ exit # "panic"
          /\ pc \in { "main", "return", "exit" }
    /\ (flags # {} /\ pc # "main") => ran = << FirstSet(flags) >>
    /\ keypair # NoKey =>
          ran[1] \in { "generate-keypair", "find-keypair", "create-token-mint" }
    /\ env # NotRead => ran[1] \in LoadingOps
    /\ calls # <<>> => ran[1] \in (LoadingOps \cup { "check-balance" }) \ { "load-keypair" }

\* A run with two flags set that ended after running only send-sol.
C7_Witness ==
    /\ flags = { "send-sol", "mint-tokens" }
    /\ pc = "exit" /\ exit = "ok"
    /\ ran = << "send-sol" >>
    /\ CallsNamed("send_and_confirm_transaction") # {}

\* C8: the confirmation loop of airdrop_if_required is left only on an
\* answer of true, which reports the airdrop complete, or on an error, which
\* is reported as the failure; an answer of false leaves it in the loop with
\* nothing printed, however many answers there have been.
C8_ConfirmLoopLeavesOnTrueOrError ==
    /\ [][pc = "air_confirm" =>
            /\ pc' # "air_confirm" =>
                 \/ /\ last_confirm' = "true"
                    /\ out' = Append(out, [kind |-> "airdrop_complete"])
                 \/ /\ last_confirm' = "err"
                    /\ out' = Append(out, [kind |-> "airdrop_failed"])
            /\ last_confirm' = "false" => pc' = "air_confirm" /\ out' = out]_vars
    /\ [](Lines("airdrop_complete") # {} => last_confirm = "true")

\* The loop still polling after MaxPolls answers of false.
C8_Witness ==
    /\ pc = "air_confirm"
    /\ polls = MaxPolls
    /\ last_confirm = "false"
    /\ Lines("airdrop_complete") = {}

\* C9 as first stated: the timeout line carries the measured elapsed time,
\* here in whole minutes.
C9_TimeoutCarriesElapsed ==
    \A i \in Lines("timeout") :
        out[i].minutes = clock \div (SecsPerMin * TicksPerSec)

\* C9: a finished search has printed either the match, with the elapsed
\* seconds read after it and both halves of the keypair, or the timeout
\* line, which carries the prefix and the budget in minutes it was called
\* with while the measured time is above that budget.
C9_OutcomeCarries ==
    Finished =>
        \/ /\ Len(out) = 4
           /\ out[1].kind = "found"
           /\ out[1].secs * TicksPerSec <= clock
           /\ clock < (out[1].secs + 1) * TicksPerSec
           /\ out[1].centiminutes * 60 * TicksPerSec - 30 * TicksPerSec <= clock * 100
           /\ clock * 100 < out[1].centiminutes * 60 * TicksPerSec + 30 * TicksPerSec
           /\ out[2] = [kind |-> "public_key", text |-> bs58_encode(keypair.pubkey)]
           /\ out[3] = [kind |-> "secret_key", bytes |-> keypair.secret \o keypair.pubkey]
           /\ out[4] = [kind |-> "finished"]
        \/ /\ out = << [kind |-> "timeout", prefix |-> prefix, minutes |-> max_minutes] >>
           /\ clock > max_minutes * 60 * TicksPerSec

\* A timeout whose measured time is in a later minute than the budget.
C9_Witness ==
    /\ pc = "exit"
    /\ Lines("timeout") # {}
    /\ clock \div (SecsPerMin * TicksPerSec) > max_minutes

MinBalanceLamports == 1500000000

\* C10: airdrop_if_required requests an airdrop exactly when the balance it
\* read is below 1.5 SOL in lamports; at or above it there is no request
\* and no confirmation query and the function ends without an error; no
\* run makes more than one request.
C10_AirdropIffBelowMinimum ==
    /\ Cardinality(CallsNamed("request_airdrop")) <= 1
    /\ (ran = << "check-balance" >> /\ calls # <<>> /\ ~calls[1].ok) =>
          CallsNamed("request_airdrop") = {}
    /\ (ran = << "check-balance" >> /\ calls # <<>> /\ calls[1].ok) =>
          IF current_balance < MinBalanceLamports
          THEN /\ Lines("requesting_airdrop") # {}
               /\ pc = "air_request" \/ Cardinality(CallsNamed("request_airdrop")) = 1
               /\ Len(calls) = 1 \/ calls[2].call = "request_airdrop"
          ELSE /\ CallsNamed("request_airdrop") = {}
               /\ CallsNamed("confirm_transaction") = {}
               /\ Lines("no_airdrop_required") # {}
               /\ Lines("airdrop_failed") = {}

\* A balance one lamport below the minimum, and the airdrop requested.
C10_Witness ==
    /\ current_balance = MinBalanceLamports - 1
    /\ CallsNamed("request_airdrop") # {}
    /\ pc = "exit"

\* C11: get_or_create_associated_token_account submits the create
\* transaction only after an account query that did not succeed, and never
\* when the account is on the ledger already (as it is on a second call
\* after a first that succeeded); the address it returns is the one
\* derived from the recipient and the mint.
C11_CreateOnlyWhenAbsent ==
    LET submitted == { i \in 1..Len(calls) : calls[i].site = "ata_send" }
        created == { i \in submitted : calls[i].ok }
        there_before == account_exists /\ created = {}
    IN  /\ submitted # {} => ~calls[1].ok /\ calls[1].call = "get_account"
        /\ there_before => submitted = {}
        /\ \A i \in Lines("token_account") :
               out[i].address = << "ata", Recipient, TokenMintAccount >>

=============================================================================
